---- MODULE Spec2Model ----
(***************************************************************************)
(* Model of the dialog_parser pipeline.                                    *)
(*                                                                         *)
(*   stage 1 (src/main.py):      BookDialogParser.parse_book and the       *)
(*                               functions it calls                        *)
(*   stage 2 (src/openaifm.py):  OpenAIFMTTSGenerator.chunk_text and       *)
(*                               BookTTSProcessor.process_dialogue_file    *)
(*                                                                         *)
(* A Python str is a sequence of one-character strings.  Characters that   *)
(* are not ASCII are written as named tokens: "LDQUO" and "RDQUO" are the  *)
(* curly double quotes U+201C and U+201D, "EMDASH" is U+2014 and "ENDASH"  *)
(* is U+2013.                                                              *)
(***************************************************************************)
EXTENDS Integers, Sequences, FiniteSets, TLC

VARIABLES
    \* ---- stage 1: BookDialogParser.parse_book -------------------------
    pc,                  \* parse_book: "idle", "start", "loop", "done", "unreadable", "aborted"
    text,                \* the text read from the book file (main.py:108)
    all_lines,           \* text.split('\n') (main.py:118)
    dialogue_candidates, \* main.py:114
    next_candidate,      \* number of candidates the loop of main.py:122 has consumed
    dialogue_results,    \* main.py:120
    characters,          \* self.characters (main.py:19)
    context_lines,       \* the window of the last iteration (main.py:128)
    excerpt,             \* the lines joined into the last prompt (main.py:70)
    backend_failed,      \* candidates (1-based) whose backend call failed
    \* ---- OpenAIFMTTSGenerator.chunk_text as a function --------------------
    ct_pc,               \* "input", "done", "idle"
    ct_text,             \* the normalized text given to chunk_text
    ct_max_length,       \* its max_length
    ct_chunks,           \* what it returned
    \* ---- stage 2: BookTTSProcessor.process_dialogue_file, run twice -------
    tts_pc,              \* "start", "line", "chunk", "returned", "idle"
    run,                 \* 1: the first run, 2: the run that follows it
    dialogue_file,       \* the dialogue JSON file: [readable, dialogue]
    disk,                \* the paths that exist under the output directory
    line_idx,            \* dialogue lines the loop of openaifm.py:213 has consumed
    chunk_idx,           \* chunk_index of the loop of openaifm.py:230
    text_chunks,         \* openaifm.py:228
    speaker_config,      \* char_config of the current line (openaifm.py:225)
    generated_files,     \* the list of openaifm.py:210 of the current run
    first_run_files,     \* what the first run returned
    backend_calls,       \* calls of the speech backend made in the current run
    planned,             \* the chunks of the current run, in order, with their filenames
    written,             \* the paths created in the current run
    first_run_planned,   \* the chunks of the first run, once it returned
    last_chunk           \* what happened to the chunk processed last

parse_vars == <<pc, text, all_lines, dialogue_candidates, next_candidate,
                dialogue_results, characters, context_lines, excerpt,
                backend_failed>>

chunk_vars == <<ct_pc, ct_text, ct_max_length, ct_chunks>>

tts_vars == <<tts_pc, run, dialogue_file, disk, line_idx, chunk_idx, text_chunks,
              speaker_config, generated_files, first_run_files, backend_calls,
              planned, written, first_run_planned, last_chunk>>

vars == <<parse_vars, chunk_vars, tts_vars>>

\* ------------------------------------------------------------------ bounds
\* Longest book, in lines.
MaxLines == 4
\* Longest text given to the scanner alone, in characters.
MaxScanLen == 3
\* Longest text given to chunk_text alone, and the largest max_length.
MaxTextLen == 9
MaxMaxLength == 4
\* Most records in a dialogue file, and the largest line number in it.
MaxDialogue == 2
MaxLineNumber == 2
\* Stands for the default max_length of chunk_text, 4000 (openaifm.py:60),
\* which process_dialogue_file uses: scaled down to the texts modelled.
DefaultMaxLength == 5

\* ------------------------------------------------------------ Python str
Min(S) == CHOOSE x \in S : \A y \in S : x <= y
Max(S) == CHOOSE x \in S : \A y \in S : x >= y

\* The characters str.strip() and the regex class \s treat as whitespace.
Whitespace == {" ", "\t", "\n", "\r"}

Lower == <<"a", "b", "c", "d", "e", "f", "g", "h", "i", "j", "k", "l", "m",
           "n", "o", "p", "q", "r", "s", "t", "u", "v", "w", "x", "y", "z">>
Upper == <<"A", "B", "C", "D", "E", "F", "G", "H", "I", "J", "K", "L", "M",
           "N", "O", "P", "Q", "R", "S", "T", "U", "V", "W", "X", "Y", "Z">>
DigitChars == <<"0", "1", "2", "3", "4", "5", "6", "7", "8", "9">>

Range(f) == {f[k] : k \in DOMAIN f}

\* str.upper() on one character.
UpperOf == [c \in Range(Lower) |-> Upper[CHOOSE k \in 1..Len(Lower) : Lower[k] = c]]

UpperChar(c) == IF c \in DOMAIN UpperOf THEN UpperOf[c] ELSE c

\* str.upper()
str_upper(s) == [k \in 1..Len(s) |-> UpperChar(s[k])]

\* The first position at or after i that holds no whitespace (Len(s)+1 if none).
RECURSIVE skip_ws(_, _)
skip_ws(s, i) ==
    IF i > Len(s) THEN Len(s) + 1
    ELSE IF s[i] \notin Whitespace THEN i
    ELSE skip_ws(s, i + 1)

\* The last position at or before i that holds no whitespace (0 if none).
RECURSIVE skip_ws_back(_, _)
skip_ws_back(s, i) ==
    IF i < 1 THEN 0
    ELSE IF s[i] \notin Whitespace THEN i
    ELSE skip_ws_back(s, i - 1)

\* str.strip()
str_strip(s) == SubSeq(s, skip_ws(s, 1), skip_ws_back(s, Len(s)))

\* c in s
Contains(s, c) == \E k \in 1..Len(s) : s[k] = c

\* s.startswith(c)
StartsWith(s, c) == Len(s) >= 1 /\ s[1] = c

\* s.split('\n')
RECURSIVE str_split_lines(_)
str_split_lines(s) ==
    LET nl == {k \in 1..Len(s) : s[k] = "\n"}
    IN  IF nl = {} THEN <<s>>
        ELSE <<SubSeq(s, 1, Min(nl) - 1)>>
             \o str_split_lines(SubSeq(s, Min(nl) + 1, Len(s)))

\* '\n'.join(lines)
RECURSIVE join_lines(_)
join_lines(lines) ==
    IF Len(lines) = 0 THEN <<>>
    ELSE IF Len(lines) = 1 THEN lines[1]
    ELSE lines[1] \o <<"\n">> \o join_lines(Tail(lines))

\* ---------------------------------------------------------------- inputs
\* The lines the parsed books are made of: blank, narration, a quoted line
\* and a line opened by a dash, with whitespace around some.
BookLines ==
    { <<" ">>,
      <<"a">>,
      <<" ", "\"", "b", "\"">>,
      <<"EMDASH", "n", " ">> }

RECURSIVE SeqsUpTo(_, _)
SeqsUpTo(S, n) ==
    IF n = 0 THEN {<<>>}
    ELSE LET shorter == SeqsUpTo(S, n - 1)
         IN  shorter \cup {Append(q, x) : q \in {r \in shorter : Len(r) = n - 1}, x \in S}

\* The book files: 1..MaxLines lines joined by newlines.
Books == {join_lines(ls) : ls \in SeqsUpTo(BookLines, MaxLines) \ {<<>>}}

\* The characters of the texts given to the scanner alone: every quotation
\* mark and dash, straight and curly ("LSQUO", "RSQUO": U+2018, U+2019).
ScanAlphabet ==
    {"a", " ", "\n", "\"", "'", "LDQUO", "RDQUO", "LSQUO", "RSQUO", "EMDASH", "ENDASH"}

ScanTexts == SeqsUpTo(ScanAlphabet, MaxScanLen)

UNKNOWN  == <<"U", "N", "K", "N", "O", "W", "N">>
NARRATOR == <<"N", "A", "R", "R", "A", "T", "O", "R">>

\* What one call of the text-generation backend can do: requests.post (or
\* response.json()) raises, or a response arrives with a status and a body.
BackendOutcomes ==
    { [kind |-> "exception", status_code |-> 0, body |-> <<>>],
      [kind |-> "response", status_code |-> 500, body |-> <<"a", "l">>],
      [kind |-> "response", status_code |-> 200, body |-> <<" ", "a", "l", "\n">>],
      [kind |-> "response", status_code |-> 200, body |-> <<"u", "n", "k", "n", "o", "w", "n", " ">>],
      [kind |-> "response", status_code |-> 200, body |-> <<"N", "a", "r", "r", "a", "t", "o", "r">>] }

\* --------------------------------------------------------------- stage 1
\* The test of main.py:32-34 on a stripped, non-empty line.
is_potential_dialogue(line) ==
    \/ Contains(line, "\"")
    \/ Contains(line, "'")
    \/ StartsWith(line, "\"")
    \/ StartsWith(line, "'")
    \/ Contains(line, "EMDASH")
    \/ Contains(line, "ENDASH")

\* The loop of extract_potential_dialogue from enumerate index i on.
RECURSIVE extract_from(_, _)
extract_from(lines, i) ==
    IF i >= Len(lines) THEN <<>>
    ELSE LET line == str_strip(lines[i + 1])
         IN  IF line = <<>> THEN extract_from(lines, i + 1)
             ELSE IF is_potential_dialogue(line)
             THEN <<[text |-> line, line_number |-> i + 1]>> \o extract_from(lines, i + 1)
             ELSE extract_from(lines, i + 1)

extract_potential_dialogue(t) == extract_from(str_split_lines(t), 0)

\* query_ollama without its try/except: a transport failure leaves the function.
query_ollama_uncaught(outcome) ==
    IF outcome.kind = "exception"
    THEN [raised |-> TRUE, value |-> <<>>]
    ELSE IF outcome.status_code = 200
    THEN [raised |-> FALSE, value |-> str_strip(outcome.body)]
    ELSE [raised |-> FALSE, value |-> <<>>]

\* query_ollama: [raised, value].  Every failure is caught inside the function.
query_ollama(outcome) ==
    IF outcome.kind = "exception"
    THEN [raised |-> FALSE, value |-> <<>>]
    ELSE IF outcome.status_code = 200
    THEN [raised |-> FALSE, value |-> str_strip(outcome.body)]
    ELSE [raised |-> FALSE, value |-> <<>>]

\* context_lines[-3:]
last3(s) == IF Len(s) <= 3 THEN s ELSE SubSeq(s, Len(s) - 2, Len(s))

\* context_lines[:2]
first2(s) == IF Len(s) <= 2 THEN s ELSE SubSeq(s, 1, 2)

\* The window of main.py:126-129.  Each element keeps, beside the stripped
\* line, the 1-based number of the document line it was taken from.
window_from(lines, j, end_idx) ==
    LET F[k \in 0..Len(lines)] ==
            IF k >= end_idx THEN <<>>
            ELSE LET line == str_strip(lines[k + 1])
                 IN  IF line # <<>>
                     THEN <<[pos |-> k + 1, line |-> line]>> \o F[k + 1]
                     ELSE F[k + 1]
    IN  F[j]

build_context_lines(lines, line_number) ==
    LET start_idx == Max({0, line_number - 4})
        end_idx   == Min({Len(lines), line_number + 3})
    IN  window_from(lines, start_idx, end_idx)

\* main.py:70: the lines joined into the prompt's excerpt.
build_excerpt(dialogue_line, ctx) ==
    last3(ctx) \o <<dialogue_line>> \o first2(ctx)

\* main.py:93
confidence_of(speaker) ==
    IF speaker \notin {UNKNOWN, NARRATOR} THEN "0.8" ELSE "0.3"

\* The test of main.py:96 without the empty string.
is_named_character_or_empty(speaker) == speaker \notin {UNKNOWN, NARRATOR}

\* main.py:96
is_named_character(speaker) == speaker \notin {UNKNOWN, NARRATOR, <<>>}

\* identify_speaker, given what the backend call does.
identify_speaker(dialogue_line, ctx, outcome) ==
    LET response == query_ollama(outcome)
        speaker  == str_upper(str_strip(response.value))
    IN  [raised     |-> response.raised,
         excerpt    |-> build_excerpt(dialogue_line, ctx),
         speaker    |-> speaker,
         confidence |-> confidence_of(speaker),
         add        |-> IF is_named_character(speaker) THEN {speaker} ELSE {}]

\* main.py:134-139
new_DialogueLine(dialogue_line, speaker, line_number, confidence) ==
    [text |-> dialogue_line, speaker |-> speaker,
     line_number |-> line_number, confidence |-> confidence]

\* ---- parse_book ---------------------------------------------------------
ParseIdle ==
    /\ pc = "idle" /\ text = <<>> /\ all_lines = <<>>
    /\ dialogue_candidates = <<>> /\ next_candidate = 0
    /\ dialogue_results = <<>> /\ characters = {}
    /\ context_lines = <<>> /\ excerpt = <<>> /\ backend_failed = {}

\* A fresh parser (main.py:16-19) about to parse one book.
ParseInit ==
    /\ pc = "start"
    /\ text \in Books
    /\ all_lines = <<>>
    /\ dialogue_candidates = <<>>
    /\ next_candidate = 0
    /\ dialogue_results = <<>>
    /\ characters = {}
    /\ context_lines = <<>>
    /\ excerpt = <<>>
    /\ backend_failed = {}

\* main.py:106-120: the file is read, scanned and split.  With no candidate
\* the loop of main.py:122 is empty and parse_book returns (main.py:141).
ReadBook ==
    /\ pc = "start"
    /\ dialogue_candidates' = extract_potential_dialogue(text)
    /\ all_lines' = str_split_lines(text)
    /\ dialogue_results' = <<>>
    /\ pc' = IF extract_potential_dialogue(text) = <<>> THEN "done" ELSE "loop"
    /\ UNCHANGED <<text, next_candidate, characters, context_lines, excerpt,
                   backend_failed>>
    /\ UNCHANGED <<chunk_vars, tts_vars>>

\* main.py:109-111: the file cannot be read; parse_book returns [].
ReadError ==
    /\ pc = "start"
    /\ pc' = "unreadable"
    /\ UNCHANGED <<text, all_lines, dialogue_candidates, next_candidate,
                   dialogue_results, characters, context_lines, excerpt,
                   backend_failed>>
    /\ UNCHANGED <<chunk_vars, tts_vars>>

\* main.py:122-141: one iteration of the loop over the candidates; after the
\* last one parse_book returns.  An exception leaving identify_speaker would
\* leave parse_book too: nothing around the loop catches it.
Attribute(outcome) ==
    /\ pc = "loop"
    /\ next_candidate < Len(dialogue_candidates)
    /\ LET cand == dialogue_candidates[next_candidate + 1]
           ctx  == build_context_lines(all_lines, cand.line_number)
           target == [pos |-> cand.line_number, line |-> cand.text]
           r    == identify_speaker(target, ctx, outcome)
       IN  /\ context_lines' = ctx
           /\ excerpt' = r.excerpt
           /\ backend_failed' =
                 IF outcome.kind = "exception" \/ outcome.status_code # 200
                 THEN backend_failed \cup {next_candidate + 1}
                 ELSE backend_failed
           /\ IF r.raised
              THEN /\ pc' = "aborted"
                   /\ UNCHANGED <<next_candidate, dialogue_results, characters>>
              ELSE /\ pc' = IF next_candidate + 1 = Len(dialogue_candidates)
                           THEN "done" ELSE "loop"
                   /\ next_candidate' = next_candidate + 1
                   /\ characters' = characters \cup r.add
                   /\ dialogue_results' =
                         Append(dialogue_results,
                                new_DialogueLine(cand.text, r.speaker,
                                                 cand.line_number, r.confidence))
    /\ UNCHANGED <<text, all_lines, dialogue_candidates>>
    /\ UNCHANGED <<chunk_vars, tts_vars>>

\* ------------------------------------------------- chunk_text (stage 2)
SentenceEnd == {".", "!", "?"}

\* re.split(r'(?<=[.!?])\s+', s)
RECURSIVE split_sentences(_)
split_sentences(s) ==
    LET cuts == {k \in 2..Len(s) : s[k] \in Whitespace /\ s[k - 1] \in SentenceEnd}
    IN  IF cuts = {} THEN <<s>>
        ELSE LET i == Min(cuts)
                 after == {k \in (i + 1)..Len(s) : s[k] \notin Whitespace}
                 j == IF after = {} THEN Len(s) + 1 ELSE Min(after)
             IN  <<SubSeq(s, 1, i - 1)>> \o split_sentences(SubSeq(s, j, Len(s)))

\* openaifm.py:74-75 and 78-79 without the strip().
flush_chunk_unstripped(chunks, current_chunk) ==
    IF current_chunk # <<>> THEN Append(chunks, current_chunk) ELSE chunks

\* openaifm.py:74-75 and 78-79: if current_chunk: chunks.append(current_chunk.strip())
flush_chunk(chunks, current_chunk) ==
    IF current_chunk # <<>> THEN Append(chunks, str_strip(current_chunk)) ELSE chunks

\* The loop of openaifm.py:70-79 from sentence k on.
RECURSIVE chunk_loop(_, _, _, _, _)
chunk_loop(sentences, k, chunks, current_chunk, max_length) ==
    IF k > Len(sentences) THEN flush_chunk(chunks, current_chunk)
    ELSE LET sentence == sentences[k]
         IN  IF Len(current_chunk) + Len(sentence) + 1 <= max_length
             THEN chunk_loop(sentences, k + 1, chunks,
                             current_chunk \o sentence \o <<" ">>, max_length)
             ELSE chunk_loop(sentences, k + 1, flush_chunk(chunks, current_chunk),
                             sentence \o <<" ">>, max_length)

chunk_text(t, max_length) ==
    IF Len(t) <= max_length THEN <<t>>
    ELSE chunk_loop(split_sentences(t), 1, <<>>, <<>>, max_length)

\* ---------------------------------------------------- clean_text_for_tts
Quotes == {"\"", "'"}
Letters == Range(Lower) \cup Range(Upper)

\* re.sub(r'^["\']|["\']$', '', s): a quote at the start and a quote at the
\* end are removed (one character is removed once).
strip_quotes(s) ==
    LET lead == IF Len(s) >= 1 /\ s[1] \in Quotes THEN 1 ELSE 0
        rest == SubSeq(s, lead + 1, Len(s))
    IN  IF Len(rest) >= 1 /\ rest[Len(rest)] \in Quotes
        THEN SubSeq(rest, 1, Len(rest) - 1)
        ELSE rest

\* The first position at or after i that holds no letter (Len(s)+1 if none).
RECURSIVE skip_letters(_, _)
skip_letters(s, i) ==
    IF i > Len(s) THEN Len(s) + 1
    ELSE IF s[i] \notin Letters THEN i
    ELSE skip_letters(s, i + 1)

\* Whether the literal lit stands at position j of s, case ignored.
literal_at(s, j, lit) ==
    /\ j + Len(lit) - 1 <= Len(s)
    /\ \A k \in 1..Len(lit) : UpperChar(s[j + k - 1]) = UpperChar(lit[k])

HE_SAID   == <<"h", "e", " ", "s", "a", "i", "d">>
SHE_SAID  == <<"s", "h", "e", " ", "s", "a", "i", "d">>
THEY_SAID == <<"t", "h", "e", "y", " ", "s", "a", "i", "d">>
SAID_     == <<"s", "a", "i", "d", " ">>

\* The position after a match of \s*he said\s*|\s*she said\s*|\s*they said\s*
\* starting at i, or 0 when there is none.
tag_match_end(s, i) ==
    LET j == skip_ws(s, i)
    IN  IF literal_at(s, j, HE_SAID) THEN skip_ws(s, j + Len(HE_SAID))
        ELSE IF literal_at(s, j, SHE_SAID) THEN skip_ws(s, j + Len(SHE_SAID))
        ELSE IF literal_at(s, j, THEY_SAID) THEN skip_ws(s, j + Len(THEY_SAID))
        ELSE 0

\* The position after a match of \s*said [A-Za-z]+\s* starting at i, or 0.
said_name_match_end(s, i) ==
    LET j == skip_ws(s, i)
        n == j + Len(SAID_)
    IN  IF literal_at(s, j, SAID_) /\ n <= Len(s) /\ s[n] \in Letters
        THEN skip_ws(s, skip_letters(s, n))
        ELSE 0

\* re.sub of the tag phrases of openaifm.py:87 by '', from position i on.
RECURSIVE remove_tags(_, _)
remove_tags(s, i) ==
    IF i > Len(s) THEN <<>>
    ELSE LET e == tag_match_end(s, i)
         IN  IF e # 0 THEN remove_tags(s, e)
             ELSE <<s[i]>> \o remove_tags(s, i + 1)

\* re.sub of 'said <Name>' (openaifm.py:88) by '', from position i on.
RECURSIVE remove_said_name(_, _)
remove_said_name(s, i) ==
    IF i > Len(s) THEN <<>>
    ELSE LET e == said_name_match_end(s, i)
         IN  IF e # 0 THEN remove_said_name(s, e)
             ELSE <<s[i]>> \o remove_said_name(s, i + 1)

\* re.sub(r'\s+', ' ', s), from position i on.
RECURSIVE collapse_ws(_, _)
collapse_ws(s, i) ==
    IF i > Len(s) THEN <<>>
    ELSE IF s[i] \in Whitespace THEN <<" ">> \o collapse_ws(s, skip_ws(s, i))
    ELSE <<s[i]>> \o collapse_ws(s, i + 1)

clean_text_for_tts(t) ==
    LET t1 == strip_quotes(str_strip(t))
        t2 == remove_tags(t1, 1)
        t3 == remove_said_name(t2, 1)
    IN  str_strip(collapse_ws(t3, 1))

\* ------------------------------------------------------ generate_filename
RECURSIVE digits(_)
digits(n) ==
    IF n < 10 THEN <<DigitChars[n + 1]>>
    ELSE digits(n \div 10) \o <<DigitChars[(n % 10) + 1]>>

\* format(n, '0<width>d') for n >= 0
zero_pad(n, width) ==
    LET d == digits(n)
    IN  IF Len(d) >= width THEN d
        ELSE [k \in 1..(width - Len(d)) |-> "0"] \o d

\* The characters re.sub(r'[^\w\-_]', '_', speaker) keeps.
SafeChars == Letters \cup Range(DigitChars) \cup {"_", "-"}

safe_speaker(speaker) ==
    [k \in 1..Len(speaker) |-> IF speaker[k] \in SafeChars THEN speaker[k] ELSE "_"]

MP3 == <<".", "m", "p", "3">>
CHUNK == <<"_", "c", "h", "u", "n", "k", "_">>

\* generate_filename with the chunk suffix left out.
generate_filename_no_suffix(speaker, line_number, chunk_index) ==
    zero_pad(line_number, 4) \o <<"_">> \o safe_speaker(speaker) \o MP3

generate_filename(speaker, line_number, chunk_index) ==
    IF chunk_index > 0
    THEN zero_pad(line_number, 4) \o <<"_">> \o safe_speaker(speaker)
         \o CHUNK \o zero_pad(chunk_index, 2) \o MP3
    ELSE zero_pad(line_number, 4) \o <<"_">> \o safe_speaker(speaker) \o MP3

\* ---- chunk_text applied to one normalized text --------------------------
ChunkIdle ==
    ct_pc = "idle" /\ ct_text = <<>> /\ ct_max_length = 0 /\ ct_chunks = <<>>

ChunkAlphabet == {"a", ".", " "}

\* The texts clean_text_for_tts can return: whitespace collapsed and trimmed.
NormalizedTexts ==
    {t \in SeqsUpTo(ChunkAlphabet, MaxTextLen) : str_strip(collapse_ws(t, 1)) = t}

ChunkInit ==
    /\ ct_pc = "input"
    /\ ct_text \in NormalizedTexts
    /\ ct_max_length \in 0..MaxMaxLength
    /\ ct_chunks = <<>>

ChunkText ==
    /\ ct_pc = "input"
    /\ ct_chunks' = chunk_text(ct_text, ct_max_length)
    /\ ct_pc' = "done"
    /\ UNCHANGED <<ct_text, ct_max_length, parse_vars, tts_vars>>

\* ---- process_dialogue_file ----------------------------------------------
NoChunk == [line_number |-> 0, chunk_index |-> 0, existed |-> FALSE,
            audio |-> "none", save |-> "none"]

TtsIdle ==
    /\ tts_pc = "idle" /\ run = 0
    /\ dialogue_file = [readable |-> FALSE, dialogue |-> <<>>]
    /\ disk = {} /\ line_idx = 0 /\ chunk_idx = 0 /\ text_chunks = <<>>
    /\ speaker_config = "none"
    /\ generated_files = <<>> /\ first_run_files = <<>> /\ backend_calls = 0
    /\ planned = <<>> /\ written = {} /\ first_run_planned = <<>>
    /\ last_chunk = NoChunk

\* The (speaker, text) pairs of the dialogue files, as stage 1 writes them:
\* speakers upper-cased and trimmed, possibly empty; texts trimmed lines.
\*   "Ab. Cd."            is cleaned to  Ab. Cd.   (two chunks)
\*   "Hi," he said.       is cleaned to  Hi,".     (one chunk)
\*   "                    is empty once cleaned    (no chunk)
TtsLines ==
    { [speaker |-> <<"A", "L">>,
       text |-> <<"\"", "A", "b", ".", " ", "C", "d", ".", "\"">>],
      [speaker |-> <<"D", "R", ".", " ", "X">>,
       text |-> <<"\"", "H", "i", ",", "\"", " ", "h", "e", " ", "s", "a", "i", "d", ".">>],
      [speaker |-> <<>>,
       text |-> <<"\"", "H", "i", ",", "\"", " ", "h", "e", " ", "s", "a", "i", "d", ".">>],
      [speaker |-> <<"A", "L">>,
       text |-> <<"\"">>] }

DialogueRecords ==
    {[speaker |-> l.speaker, line_number |-> n, text |-> l.text] :
        l \in TtsLines, n \in 1..MaxLineNumber}

\* The "dialogue" arrays stage 1 can write: line numbers strictly ascending.
Dialogues ==
    {d \in SeqsUpTo(DialogueRecords, MaxDialogue) :
        \A k \in 1..(Len(d) - 1) : d[k].line_number < d[k + 1].line_number}

DialogueFiles ==
    {[readable |-> TRUE, dialogue |-> d] : d \in Dialogues}
    \cup {[readable |-> FALSE, dialogue |-> <<>>]}

\* The character-voice table (load_config): AL has an entry, and there
\* is a DEFAULT entry.
Config == {<<"A", "L">>, <<"D", "E", "F", "A", "U", "L", "T">>}

\* get_character_config: which entry of the table is used.
get_character_config(speaker) ==
    IF str_upper(speaker) \in Config THEN str_upper(speaker)
    ELSE IF <<"D", "E", "F", "A", "U", "L", "T">> \in Config
    THEN <<"D", "E", "F", "A", "U", "L", "T">>
    ELSE <<"a", "l", "l", "o", "y">>

output_dir == <<"o", "u", "t">>

\* self.output_dir / filename
path_of(filename) == output_dir \o <<"/">> \o filename

\* save_audio given the file's name alone, not its path under output_dir.
save_target_basename(file_path) ==
    SubSeq(file_path, Len(output_dir) + 2, Len(file_path))

\* openaifm.py:255: the path save_audio is given, str(file_path).
save_target(file_path) == file_path

\* What generate_audio can return: None (an exception or a status other than
\* 200), or the content of a 200 response, which may be empty.
AudioOutcomes == {"none", "empty", "audio"}

\* What save_audio can do: write the file and return True; fail before the
\* file is created (makedirs or open raises); fail after open() created it.
SaveOutcomes == {"saved", "failed_no_file", "failed_file_created"}

TtsInit ==
    /\ tts_pc = "start"
    /\ run = 1
    /\ dialogue_file \in DialogueFiles
    /\ disk = {}
    /\ line_idx = 0
    /\ chunk_idx = 0
    /\ text_chunks = <<>>
    /\ speaker_config = "none"
    /\ generated_files = <<>>
    /\ first_run_files = <<>>
    /\ backend_calls = 0
    /\ planned = <<>>
    /\ written = {}
    /\ first_run_planned = <<>>
    /\ last_chunk = NoChunk

\* openaifm.py:197-210.  With no dialogue line the loop of openaifm.py:213
\* is empty and the run returns (openaifm.py:271).
LoadDialogue ==
    /\ tts_pc = "start"
    /\ dialogue_file.readable
    /\ tts_pc' = IF Len(dialogue_file.dialogue) = 0 THEN "returned" ELSE "line"
    /\ line_idx' = 0
    /\ generated_files' = <<>>
    /\ UNCHANGED <<run, dialogue_file, disk, chunk_idx, text_chunks, speaker_config,
                   first_run_files, backend_calls, planned, written,
                   first_run_planned, last_chunk>>
    /\ UNCHANGED <<parse_vars, chunk_vars>>

\* openaifm.py:200-202: the file cannot be loaded; the run returns [].
LoadError ==
    /\ tts_pc = "start"
    /\ ~dialogue_file.readable
    /\ tts_pc' = "returned"
    /\ generated_files' = <<>>
    /\ UNCHANGED <<run, dialogue_file, disk, line_idx, chunk_idx, text_chunks,
                   speaker_config, first_run_files, backend_calls, planned,
                   written, first_run_planned, last_chunk>>
    /\ UNCHANGED <<parse_vars, chunk_vars>>

\* The position after dialogue line k (0-based): the next line, or, after
\* the last one, the return of openaifm.py:271.
after_line(k) ==
    IF k + 1 = Len(dialogue_file.dialogue) THEN "returned" ELSE "line"

\* openaifm.py:213-228: the next dialogue line is cleaned and chunked; a line
\* that is empty once cleaned is passed over.
NextLine ==
    /\ tts_pc = "line"
    /\ line_idx < Len(dialogue_file.dialogue)
    /\ LET dialogue   == dialogue_file.dialogue[line_idx + 1]
           clean_text == clean_text_for_tts(dialogue.text)
       IN  IF str_strip(clean_text) = <<>>
           THEN /\ line_idx' = line_idx + 1
                /\ tts_pc' = after_line(line_idx)
                /\ UNCHANGED <<text_chunks, chunk_idx, speaker_config>>
           ELSE /\ speaker_config' = get_character_config(dialogue.speaker)
                /\ text_chunks' = chunk_text(clean_text, DefaultMaxLength)
                /\ chunk_idx' = 0
                /\ tts_pc' = "chunk"
                /\ UNCHANGED line_idx
    /\ UNCHANGED <<run, dialogue_file, disk, generated_files, first_run_files,
                   backend_calls, planned, written, first_run_planned, last_chunk>>
    /\ UNCHANGED <<parse_vars, chunk_vars>>

\* openaifm.py:238-243 and 256-261
new_AudioFile(file_path, speaker, line_number, chunk) ==
    [file_path |-> file_path, speaker |-> speaker,
     line_number |-> line_number, text |-> chunk]

\* The branches of openaifm.py:254-255 with the result of save_audio ignored.
appends_record_unsaved(audio, save) == audio = "audio"

\* openaifm.py:254-255: if audio_data: if save_audio(...): append
appends_record(audio, save) == audio = "audio" /\ save = "saved"

\* The loop control after a chunk: the next chunk, or the next line.
AdvanceChunk ==
    IF chunk_idx + 1 < Len(text_chunks)
    THEN /\ chunk_idx' = chunk_idx + 1
         /\ UNCHANGED <<tts_pc, line_idx>>
    ELSE /\ chunk_idx' = 0
         /\ line_idx' = line_idx + 1
         /\ tts_pc' = after_line(line_idx)

\* openaifm.py:230-244: the chunk's file exists; it is recorded, not synthesized.
SkipExisting ==
    /\ tts_pc = "chunk"
    /\ LET dialogue  == dialogue_file.dialogue[line_idx + 1]
           filename  == generate_filename(dialogue.speaker, dialogue.line_number, chunk_idx)
           file_path == path_of(filename)
       IN  /\ file_path \in disk
           /\ generated_files' =
                 Append(generated_files,
                        new_AudioFile(file_path, dialogue.speaker, dialogue.line_number,
                                      text_chunks[chunk_idx + 1]))
           /\ planned' = Append(planned, [line_number |-> dialogue.line_number,
                                          chunk_index |-> chunk_idx,
                                          file_path |-> file_path])
           /\ last_chunk' = [line_number |-> dialogue.line_number,
                             chunk_index |-> chunk_idx, existed |-> TRUE,
                             audio |-> "none", save |-> "none"]
    /\ AdvanceChunk
    /\ UNCHANGED <<run, dialogue_file, disk, text_chunks, speaker_config,
                   first_run_files, backend_calls, written, first_run_planned>>
    /\ UNCHANGED <<parse_vars, chunk_vars>>

\* openaifm.py:230-269: the chunk's file does not exist; the backend is
\* called and, if it returned audio, the audio is saved.
Synthesize(audio, save) ==
    /\ tts_pc = "chunk"
    /\ audio = "audio" \/ save = "none"
    /\ audio = "audio" => save \in SaveOutcomes
    /\ LET dialogue  == dialogue_file.dialogue[line_idx + 1]
           filename  == generate_filename(dialogue.speaker, dialogue.line_number, chunk_idx)
           file_path == path_of(filename)
           created   == IF save \in {"saved", "failed_file_created"}
                        THEN {save_target(file_path)} ELSE {}
       IN  /\ file_path \notin disk
           /\ backend_calls' = backend_calls + 1
           /\ disk' = disk \cup created
           /\ written' = written \cup created
           /\ generated_files' =
                 IF appends_record(audio, save)
                 THEN Append(generated_files,
                             new_AudioFile(file_path, dialogue.speaker,
                                           dialogue.line_number,
                                           text_chunks[chunk_idx + 1]))
                 ELSE generated_files
           /\ planned' = Append(planned, [line_number |-> dialogue.line_number,
                                          chunk_index |-> chunk_idx,
                                          file_path |-> file_path])
           /\ last_chunk' = [line_number |-> dialogue.line_number,
                             chunk_index |-> chunk_idx, existed |-> FALSE,
                             audio |-> audio, save |-> save]
    /\ AdvanceChunk
    /\ UNCHANGED <<run, dialogue_file, text_chunks, speaker_config, first_run_files,
                   first_run_planned>>
    /\ UNCHANGED <<parse_vars, chunk_vars>>

\* process_dialogue_file is called again, with the same dialogue file,
\* configuration and output directory.
RunAgain ==
    /\ tts_pc = "returned"
    /\ run = 1
    /\ run' = 2
    /\ first_run_files' = generated_files
    /\ first_run_planned' = planned
    /\ tts_pc' = "start"
    /\ generated_files' = <<>>
    /\ line_idx' = 0
    /\ chunk_idx' = 0
    /\ text_chunks' = <<>>
    /\ speaker_config' = "none"
    /\ backend_calls' = 0
    /\ planned' = <<>>
    /\ written' = {}
    /\ last_chunk' = NoChunk
    /\ UNCHANGED <<dialogue_file, disk>>
    /\ UNCHANGED <<parse_vars, chunk_vars>>

TtsNext ==
    \/ LoadDialogue
    \/ LoadError
    \/ NextLine
    \/ SkipExisting
    \/ \E audio \in AudioOutcomes, save \in SaveOutcomes \cup {"none"} :
          Synthesize(audio, save)
    \/ RunAgain

InitTTS == TtsInit /\ ParseIdle /\ ChunkIdle

SpecTTS == InitTTS /\ [][TtsNext]_vars

InitChunk == ChunkInit /\ ParseIdle /\ TtsIdle

SpecChunk == InitChunk /\ [][ChunkText]_vars

\* The scanner alone: parse_book up to the split of main.py:118, on texts
\* over every kind of quotation mark.
ScanInit ==
    /\ pc = "start"
    /\ text \in ScanTexts
    /\ all_lines = <<>>
    /\ dialogue_candidates = <<>>
    /\ next_candidate = 0
    /\ dialogue_results = <<>>
    /\ characters = {}
    /\ context_lines = <<>>
    /\ excerpt = <<>>
    /\ backend_failed = {}

Init == ParseInit /\ ChunkIdle /\ TtsIdle

Next ==
    \/ ReadBook
    \/ ReadError
    \/ \E outcome \in BackendOutcomes : Attribute(outcome)

Spec == Init /\ [][Next]_vars

ScanNext == ReadBook \/ ReadError

InitScan == ScanInit /\ ChunkIdle /\ TtsIdle

SpecScan == InitScan /\ [][ScanNext]_vars

\* ================================================================ claims
Sentinels == {UNKNOWN, NARRATOR, <<>>}

\* The stripped text of document line n (1-based).
DocLine(n) == str_strip(all_lines[n])

\* The candidate the last loop iteration worked on.
LastCandidate == dialogue_candidates[next_candidate]

\* C1: whatever the backend did (an empty response after a failure included),
\* the confidence of a record is 0.8 when its normalized label is none of
\* UNKNOWN, NARRATOR and the empty string, and 0.3 otherwise.
C1_ConfidenceByLabel ==
    \A k \in 1..Len(dialogue_results) :
        dialogue_results[k].confidence =
            IF dialogue_results[k].speaker \notin Sentinels THEN "0.8" ELSE "0.3"

\* The non-sentinel, non-empty labels among the records produced so far.
NamedLabels(results) ==
    {results[k].speaker : k \in 1..Len(results)} \ Sentinels

\* C2: at every point of a parse_book run on a fresh parser, characters is
\* exactly the set of non-sentinel, non-empty labels attributed so far, and
\* no step removes an element from it.
C2_CharactersExact ==
    /\ [](characters = NamedLabels(dialogue_results))
    /\ [][characters \subseteq characters']_vars

C2_Witness ==
    /\ pc = "done"
    /\ characters # {}
    /\ \E j, k \in 1..Len(dialogue_results) :
          /\ j # k
          /\ dialogue_results[j].speaker = dialogue_results[k].speaker
          /\ dialogue_results[j].speaker \in characters
    /\ \E k \in 1..Len(dialogue_results) : dialogue_results[k].speaker = UNKNOWN
    /\ \E k \in 1..Len(dialogue_results) : dialogue_results[k].speaker = <<>>

\* C3: whatever backend calls fail, parse_book never aborts and its records
\* are the scanner's candidates, one each, in candidate order, with strictly
\* ascending line numbers, each with the trimmed text of its document line.
C3_OneRecordPerCandidate ==
    /\ pc # "aborted"
    /\ pc \in {"loop", "done"} =>
          /\ Len(dialogue_results) = next_candidate
          /\ next_candidate <= Len(dialogue_candidates)
          /\ \A k \in 1..Len(dialogue_results) :
                /\ dialogue_results[k].text = dialogue_candidates[k].text
                /\ dialogue_results[k].line_number = dialogue_candidates[k].line_number
                /\ dialogue_results[k].line_number \in 1..Len(all_lines)
                /\ dialogue_results[k].text = DocLine(dialogue_results[k].line_number)
          /\ \A j, k \in 1..Len(dialogue_results) :
                j < k => dialogue_results[j].line_number < dialogue_results[k].line_number
    /\ pc = "done" => Len(dialogue_results) = Len(dialogue_candidates)

C3_Witness ==
    /\ pc = "done"
    /\ Len(dialogue_results) >= 3
    /\ 1 \in backend_failed
    /\ 2 \notin backend_failed
    /\ 3 \in backend_failed
    /\ dialogue_results[1].text # dialogue_results[2].text

QuoteOrDash ==
    {"\"", "'", "LDQUO", "RDQUO", "LSQUO", "RSQUO", "EMDASH", "ENDASH"}

\* The document lines (1-based numbers, ascending) that are not empty after
\* trimming and contain a quotation mark or a dash.
MarkedLines ==
    {n \in 1..Len(all_lines) :
        /\ DocLine(n) # <<>>
        /\ \E c \in QuoteOrDash : Contains(DocLine(n), c)}

\* C4: extract_potential_dialogue returns every non-blank line containing a
\* straight or curly quotation mark or an em or en dash, in line order, as
\* its trimmed text with its 1-based line number, and never a blank line.
C4_NoFalseNegatives ==
    pc \in {"loop", "done"} =>
        /\ \A n \in MarkedLines :
              \E k \in 1..Len(dialogue_candidates) :
                  /\ dialogue_candidates[k].line_number = n
                  /\ dialogue_candidates[k].text = DocLine(n)
        /\ \A k \in 1..Len(dialogue_candidates) : dialogue_candidates[k].text # <<>>
        /\ \A j, k \in 1..Len(dialogue_candidates) :
              j < k => dialogue_candidates[j].line_number < dialogue_candidates[k].line_number

\* The trimmed non-blank lines among document lines lo..hi, in order.
NonBlankLines(lo, hi) ==
    LET F[n \in 1..(Len(all_lines) + 1)] ==
            IF n > hi THEN <<>>
            ELSE IF DocLine(n) # <<>> THEN <<DocLine(n)>> \o F[n + 1]
            ELSE F[n + 1]
    IN  F[lo]

\* C5: the window built for the candidate at line N of an L-line document
\* is the trimmed non-blank lines among lines max(1, N-3) .. min(L, N+2).
C5_WindowThreeBeforeTwoAfter ==
    (pc \in {"loop", "done"} /\ next_candidate >= 1) =>
        LET N == LastCandidate.line_number
            L == Len(all_lines)
        IN  /\ [k \in 1..Len(context_lines) |-> context_lines[k].line]
                  = NonBlankLines(Max({1, N - 3}), Min({L, N + 2}))
            /\ \A k \in 1..Len(context_lines) :
                  /\ context_lines[k].pos \in 1..L
                  /\ context_lines[k].line # <<>>

\* C10: in the excerpt of the prompt, the lines before the dialogue line
\* precede the target line in the document, the lines after it follow the
\* target line, and the target line appears exactly once.
C10_ExcerptOrder ==
    (pc \in {"loop", "done"} /\ next_candidate >= 1) =>
        LET N == LastCandidate.line_number
            d == Len(last3(context_lines)) + 1
        IN  /\ excerpt[d].pos = N
            /\ \A k \in 1..Len(excerpt) :
                  /\ k < d => excerpt[k].pos < N
                  /\ k > d => excerpt[k].pos > N

\* ' '.join(chunks)
RECURSIVE join_space(_)
join_space(chunks) ==
    IF Len(chunks) = 0 THEN <<>>
    ELSE IF Len(chunks) = 1 THEN chunks[1]
    ELSE chunks[1] \o <<" ">> \o join_space(Tail(chunks))

\* The sentences of the chunks, chunk after chunk.
RECURSIVE sentences_of(_)
sentences_of(chunks) ==
    IF Len(chunks) = 0 THEN <<>>
    ELSE split_sentences(chunks[1]) \o sentences_of(Tail(chunks))

\* C7: chunk_text of a normalized text keeps the sentences, in order, none
\* lost, duplicated or split: the chunks joined by single spaces are the
\* text, and a chunk longer than the maximum is one sentence of the text.
C7_ChunksKeepSentences ==
    ct_pc = "done" =>
        /\ join_space(ct_chunks) = ct_text
        /\ sentences_of(ct_chunks) = split_sentences(ct_text)
        /\ \A k \in 1..Len(ct_chunks) :
              Len(ct_chunks[k]) > ct_max_length =>
                  /\ Len(split_sentences(ct_chunks[k])) = 1
                  /\ ct_chunks[k] \in Range(split_sentences(ct_text))

C7_Witness ==
    /\ ct_pc = "done"
    /\ Len(ct_chunks) >= 2
    /\ \E k \in 1..Len(ct_chunks) : Len(ct_chunks[k]) > ct_max_length
    /\ \E k \in 1..Len(ct_chunks) : Len(split_sentences(ct_chunks[k])) >= 2

\* The records a run returns when every chunk is recorded, for the lines
\* of dialogue d from line k on.
RECURSIVE all_records(_, _)
all_records(d, k) ==
    IF k > Len(d) THEN <<>>
    ELSE LET clean_text == clean_text_for_tts(d[k].text)
             chunks == IF str_strip(clean_text) = <<>> THEN <<>>
                       ELSE chunk_text(clean_text, DefaultMaxLength)
         IN  [c \in 1..Len(chunks) |->
                 [file_path |-> path_of(generate_filename(d[k].speaker, d[k].line_number, c - 1)),
                  speaker |-> d[k].speaker,
                  line_number |-> d[k].line_number,
                  chunk_index |-> c - 1,
                  text |-> chunks[c]]]
             \o all_records(d, k + 1)

AllRecords == all_records(dialogue_file.dialogue, 1)

\* Whether the first run recorded every chunk it came to: no backend call
\* and no save failed in it.
FirstRunComplete == Len(first_run_files) = Len(first_run_planned)

C8_DistinctFilenames ==
    /\ \A j, k \in 1..Len(planned) :
          (planned[j].line_number # planned[k].line_number
              \/ planned[j].chunk_index # planned[k].chunk_index)
          => planned[j].file_path # planned[k].file_path
    /\ \A j, k \in 1..Len(planned) : j # k => planned[j].file_path # planned[k].file_path
    /\ last_chunk.existed => planned[Len(planned)].file_path \notin written

C8_Witness ==
    /\ tts_pc = "returned"
    /\ Len(planned) >= 3
    /\ \E j, k \in 1..Len(planned) :
          /\ planned[j].line_number # planned[k].line_number
          /\ safe_speaker(dialogue_file.dialogue[1].speaker) # dialogue_file.dialogue[1].speaker
    /\ \E k \in 1..Len(planned) : planned[k].chunk_index = 1
    /\ Len(generated_files) = Len(planned)

\* The chunk a step of the chunk loop is about to process.
CurrentRecord ==
    LET dialogue == dialogue_file.dialogue[line_idx + 1]
    IN  new_AudioFile(path_of(generate_filename(dialogue.speaker, dialogue.line_number,
                                                chunk_idx)),
                      dialogue.speaker, dialogue.line_number, text_chunks[chunk_idx + 1])

\* C9: a step of the chunk loop appends the chunk's record exactly when the
\* chunk's file existed already or the backend returned audio and the save
\* succeeded, and appends nothing otherwise; no other step of a run changes
\* the records; and a run that loaded its file returns only after it
\* processed every chunk of every line, in order, whatever failed.
C9_RecordIffExistedOrSaved ==
    /\ [][ /\ tts_pc = "chunk" =>
              IF \/ CurrentRecord.file_path \in disk
                 \/ (last_chunk'.audio = "audio" /\ last_chunk'.save = "saved")
              THEN generated_files' = Append(generated_files, CurrentRecord)
              ELSE generated_files' = generated_files
           /\ tts_pc = "line" => generated_files' = generated_files
         ]_vars
    /\ [](tts_pc = "returned" /\ dialogue_file.readable =>
            LET all == AllRecords
            IN  [k \in 1..Len(planned) |-> <<planned[k].line_number, planned[k].chunk_index>>]
                = [k \in 1..Len(all) |-> <<all[k].line_number, all[k].chunk_index>>])

C9_Witness ==
    /\ run = 2
    /\ tts_pc = "returned"
    /\ Len(planned) >= 3
    /\ backend_calls >= 2
    /\ Len(generated_files) = Len(planned) - 1
    /\ generated_files[1].file_path # planned[1].file_path
    /\ last_chunk.existed
    /\ planned[1].line_number # planned[Len(planned)].line_number

\* C11: when the text is longer than the maximum, chunk_text packs greedily:
\* for every two consecutive chunks, the first chunk joined by one space to
\* the first sentence of the next chunk is longer than the maximum.
C11_GreedyPacking ==
    (ct_pc = "done" /\ Len(ct_text) > ct_max_length) =>
        \A k \in 1..(Len(ct_chunks) - 1) :
            Len(ct_chunks[k]) + 1 + Len(split_sentences(ct_chunks[k + 1])[1])
                > ct_max_length
====
